---- MODULE Spec2Model ----
(***************************************************************************)
(* Draft-state engine of the fantasy-football draft assistant              *)
(* (src/draft_assistant.py, class DraftAssistant).                         *)
(*                                                                         *)
(* The state is the draft_state dictionary of one DraftAssistant object,   *)
(* the snapshot file written by export_draft_state, and the outcome of the *)
(* last call.  Every public method is one action.  A method that raises    *)
(* (a KeyError on a draft_state that an import left without a field) is    *)
(* modelled with the mutations it made before the raise.                   *)
(*                                                                         *)
(* Not modelled: the XGBoost model (trained, never consulted), the         *)
(* 'timestamp' field of a pick (datetime.now(), read by no operation) and  *)
(* the Team column of the rankings table (copied into the output only).    *)
(* Scores are exact fractions: two sums that are equal here and differ in  *)
(* the last bit as binary floating-point numbers are one score here.       *)
(***************************************************************************)
EXTENDS Integers, Sequences, FiniteSets, TLC

(***************************************************************************)
(* Bounds of the model.                                                    *)
(***************************************************************************)
\* number of rows of the rankings table
NumPlayers == 3
\* record_pick is called with the name of one of the first NumPickedNames rows
\* of the table, or with a name the table does not hold
NumPickedNames == 2
\* record_pick is not called once the draft history holds this many picks
MaxPicks == 2
\* set_draft_parameters is called with total_teams and current_team in 1..MaxTeams
MaxTeams == 2
\* picks recorded in the fixed-parameter (snake) specification
MaxSnakePicks == 14
\* the scoring terms are computed for Expert_Rank in 1..MaxExpertRank
MaxExpertRank == 30
\* and for an overall draft position in 1..MaxOverallPosition
MaxOverallPosition == 55
\* the largest Expert_Rank a reasoning is written for
MaxReasonRank == 101
\* the largest number of players left at a position a reasoning is written for
MaxPositionAvailable == 6

(***************************************************************************)
(* Optional arguments: None is the empty tuple, a given value x is <<x>>.  *)
(***************************************************************************)
None == <<>>
Some(x) == <<x>>

(***************************************************************************)
(* players_df after _load_data: rows sorted by Expert_Rank.  Names are     *)
(* unique; the first NumPlayers rows of the table below are loaded.        *)
(***************************************************************************)
RankingsTable ==
    << [Name |-> "Chase",    Position |-> "WR", Expert_Rank |-> 1],
       [Name |-> "Robinson", Position |-> "RB", Expert_Rank |-> 2],
       [Name |-> "Lamb",     Position |-> "WR", Expert_Rank |-> 3],
       [Name |-> "Allen",    Position |-> "QB", Expert_Rank |-> 4],
       [Name |-> "Bowers",   Position |-> "TE", Expert_Rank |-> 5] >>

players_df == SubSeq(RankingsTable, 1, NumPlayers)

CatalogNames == { players_df[i].Name : i \in 1..Len(players_df) }

\* a name the rankings table does not hold
UnknownName == "Nobody"

\* the names record_pick is called with
PlayerNames ==
    { players_df[i].Name : i \in 1..NumPickedNames } \cup {UnknownName}

\* players_df[players_df['Name'] == player_name].iloc[0]
PlayerRow(player_name) ==
    players_df[CHOOSE i \in 1..Len(players_df) : players_df[i].Name = player_name]

(***************************************************************************)
(* Keys of the team_rosters dictionary.  record_pick inserts the integer   *)
(* team number; json.dump writes every key as a string and json.load       *)
(* leaves it a string, so a roster read back from a snapshot is keyed "3", *)
(* which is a different key from 3.                                        *)
(***************************************************************************)
IntKey(n) == <<"int", n>>
StrKey(n) == <<"str", n>>

EmptyDict == [k \in {} |-> 0]

Fields == {"round", "pick", "total_teams", "draft_format", "drafted_players",
           "team_rosters", "current_team"}

Has(ds, fs) == fs \subseteq DOMAIN ds

\* in_flight: the record_pick that has started and not yet returned, if any
VARIABLES draft_state, disk, result, in_flight

vars == <<draft_state, disk, result, in_flight>>

(***************************************************************************)
(* DraftAssistant.__init__                                                 *)
(***************************************************************************)
InitialDraftState ==
    [round |-> 1, pick |-> 1, total_teams |-> 12, draft_format |-> EmptyDict,
     drafted_players |-> <<>>, team_rosters |-> EmptyDict, current_team |-> 1]

Init ==
    /\ draft_state = InitialDraftState
    /\ disk = None
    /\ result = [op |-> "init", ret |-> "None"]
    /\ in_flight = None

(***************************************************************************)
(* _calculate_current_team: the team on the clock in a snake draft.        *)
(***************************************************************************)
\* mutant: the reverse order counted from total_teams - 1
TeamOnClockWithoutPlusOne(round_num, pick_num, total_teams) ==
    IF round_num % 2 = 1 THEN pick_num ELSE total_teams - pick_num

\* mutant: no reversal in even rounds
TeamOnClockForwardOnly(round_num, pick_num, total_teams) == pick_num

TeamOnClock(round_num, pick_num, total_teams) ==
    IF round_num % 2 = 1 THEN pick_num ELSE total_teams - pick_num + 1

_calculate_current_team(ds) ==
    TeamOnClock(ds.round, ds.pick, ds.total_teams)

(***************************************************************************)
(* _advance_draft_position: the (round, pick) after one pick.              *)
(***************************************************************************)
\* mutant: the rollover forgets to open the next round
AdvanceKeepingRound(ds) ==
    IF ds.pick = ds.total_teams
    THEN [ds EXCEPT !.pick = 1]
    ELSE [ds EXCEPT !.pick = ds.pick + 1]

\* mutant: the tracker stays where it is
AdvanceNothing(ds) == ds

\* mutant: the rollover comes one pick late
AdvanceRollingOverLate(ds) ==
    IF ds.pick = ds.total_teams + 1
    THEN [ds EXCEPT !.round = ds.round + 1, !.pick = 1]
    ELSE [ds EXCEPT !.pick = ds.pick + 1]

_advance_draft_position(ds) ==
    IF ds.pick = ds.total_teams
    THEN [ds EXCEPT !.round = ds.round + 1, !.pick = 1]
    ELSE [ds EXCEPT !.pick = ds.pick + 1]

\* get_current_draft_position
get_current_draft_position(ds) ==
    (ds.round - 1) * ds.total_teams + ds.pick

\* mutant: the pick index of the round is compared with the user's team
IsYourTurnByPick(ds) == ds.pick = ds.current_team

\* is_your_turn
is_your_turn(ds) == _calculate_current_team(ds) = ds.current_team

(***************************************************************************)
(* set_draft_format, set_draft_parameters: the arguments are stored as     *)
(* given, nothing is validated.                                            *)
(***************************************************************************)
set_draft_format(ds, format_config) ==
    [k \in DOMAIN ds \cup {"draft_format"} |->
        IF k = "draft_format" THEN format_config ELSE ds[k]]

set_draft_parameters(ds, total_teams, current_team) ==
    [k \in DOMAIN ds \cup {"total_teams", "current_team"} |->
        IF k = "total_teams" THEN total_teams
        ELSE IF k = "current_team" THEN current_team
        ELSE ds[k]]

(***************************************************************************)
(* record_pick.  The result is the new draft_state and the return value;   *)
(* "KeyError" is the exception raised on a draft_state without a field,    *)
(* which leaves the appends made before it in place.                       *)
(***************************************************************************)
\* mutant: the pick is stamped with the position after the advance
PickInfoAfterAdvance(ds, player_name, team_number, is_your_pick) ==
    [player_name  |-> player_name,
     team_number  |-> team_number,
     position     |-> PlayerRow(player_name).Position,
     expert_rank  |-> PlayerRow(player_name).Expert_Rank,
     round        |-> _advance_draft_position(ds).round,
     pick         |-> _advance_draft_position(ds).pick,
     is_your_pick |-> is_your_pick]

\* mutant: is_your_pick is always worked out from the team
PickInfoForCurrentTeam(ds, player_name, team_number, is_your_pick) ==
    [player_name  |-> player_name,
     team_number  |-> team_number,
     position     |-> PlayerRow(player_name).Position,
     expert_rank  |-> PlayerRow(player_name).Expert_Rank,
     round        |-> ds.round,
     pick         |-> ds.pick,
     is_your_pick |-> (team_number = ds.current_team)]

\* lines 166-176: the pick_info dictionary
PickInfo(ds, player_name, team_number, is_your_pick) ==
    [player_name  |-> player_name,
     team_number  |-> team_number,
     position     |-> PlayerRow(player_name).Position,
     expert_rank  |-> PlayerRow(player_name).Expert_Rank,
     round        |-> ds.round,
     pick         |-> ds.pick,
     is_your_pick |-> is_your_pick]

\* mutant: the history is overwritten by the new pick
AppendDraftedReplacing(ds, pick_info) ==
    [ds EXCEPT !.drafted_players = <<pick_info>>]

\* line 178
AppendDrafted(ds, pick_info) ==
    [ds EXCEPT !.drafted_players = Append(ds.drafted_players, pick_info)]

\* mutant: every pick goes to the roster of the user's team
AppendRosterOfUser(ds, team_number, pick_info) ==
    LET tr  == ds.team_rosters
        key == IntKey(ds.current_team)
        old == IF key \in DOMAIN tr THEN tr[key] ELSE <<>>
    IN  [ds EXCEPT !.team_rosters =
            [k \in DOMAIN tr \cup {key} |->
                IF k = key THEN Append(old, pick_info) ELSE tr[k]]]

\* lines 181-184
AppendRoster(ds, team_number, pick_info) ==
    LET tr  == ds.team_rosters
        key == IntKey(team_number)
        old == IF key \in DOMAIN tr THEN tr[key] ELSE <<>>
    IN  [ds EXCEPT !.team_rosters =
            [k \in DOMAIN tr \cup {key} |->
                IF k = key THEN Append(old, pick_info) ELSE tr[k]]]

\* the fields record_pick reads before its first mutation (lines 158-176)
FieldsReadFirst(team_number, is_your_pick) ==
    {"round", "pick"}
    \cup (IF team_number = None THEN {"total_teams"} ELSE {})
    \cup (IF is_your_pick = None THEN {"current_team"} ELSE {})

\* mutant: the tracker moves although the player was not found
PlayerNotFoundAdvancing(ds) ==
    [ds |-> _advance_draft_position(ds), ret |-> "False"]

\* lines 152-154: the early return
PlayerNotFound(ds) == [ds |-> ds, ret |-> "False"]

record_pick(ds, player_name, team_number, is_your_pick) ==
    IF player_name \notin CatalogNames
    THEN PlayerNotFound(ds)
    ELSE IF ~Has(ds, FieldsReadFirst(team_number, is_your_pick))
    THEN [ds |-> ds, ret |-> "KeyError"]
    ELSE
      LET team == IF team_number = None
                  THEN _calculate_current_team(ds) ELSE team_number[1]
          mine == IF is_your_pick = None
                  THEN (team = ds.current_team) ELSE is_your_pick[1]
          pick_info == PickInfo(ds, player_name, team, mine)
      IN  IF ~Has(ds, {"drafted_players"})
          THEN [ds |-> ds, ret |-> "KeyError"]
          ELSE LET ds1 == AppendDrafted(ds, pick_info)
               IN  IF ~Has(ds1, {"team_rosters"})
                   THEN [ds |-> ds1, ret |-> "KeyError"]
                   ELSE LET ds2 == AppendRoster(ds1, team, pick_info)
                        IN  IF ~Has(ds2, {"total_teams"})
                            THEN [ds |-> ds2, ret |-> "KeyError"]
                            ELSE [ds  |-> _advance_draft_position(ds2),
                                  ret |-> "True"]

(***************************************************************************)
(* get_available_players: the rows of players_df whose name is in no pick  *)
(* of drafted_players, in Expert_Rank order.                               *)
(***************************************************************************)
DraftedNames(ds) ==
    { ds.drafted_players[i].player_name : i \in 1..Len(ds.drafted_players) }

get_available_players(ds) ==
    SelectSeq(players_df, LAMBDA row : row.Name \notin DraftedNames(ds))

AvailableNames(ds) ==
    { get_available_players(ds)[i].Name : i \in 1..Len(get_available_players(ds)) }

(***************************************************************************)
(* get_team_needs                                                          *)
(***************************************************************************)
CountPosition(roster, pos) ==
    Cardinality({ i \in 1..Len(roster) : roster[i].position = pos })

Max(a, b) == IF a >= b THEN a ELSE b

get_team_needs(ds, team_number) ==
    IF IntKey(team_number) \notin DOMAIN ds.team_rosters
    THEN ds.draft_format
    ELSE LET current_roster == ds.team_rosters[IntKey(team_number)]
         IN  [pos \in DOMAIN ds.draft_format |->
                 Max(0, ds.draft_format[pos] - CountPosition(current_roster, pos))]

(***************************************************************************)
(* export_draft_state / import_draft_state.  The snapshot holds draft_state*)
(* as json.dump writes it: the integer keys of team_rosters become         *)
(* strings, and of two keys that print alike ("3" from an earlier import,  *)
(* 3 inserted after it) json.load keeps the later one, the integer's.      *)
(***************************************************************************)
StringifyKeys(tr) ==
    [k \in { StrKey(key[2]) : key \in DOMAIN tr } |->
        IF IntKey(k[2]) \in DOMAIN tr THEN tr[IntKey(k[2])] ELSE tr[k]]

json_dump(ds) ==
    IF Has(ds, {"team_rosters"})
    THEN [ds EXCEPT !.team_rosters = StringifyKeys(ds.team_rosters)]
    ELSE ds

\* line 511 reads drafted_players before the file is opened
export_draft_state(ds, file) ==
    IF ~Has(ds, {"drafted_players"})
    THEN [disk |-> file, ret |-> "KeyError"]
    ELSE [disk |-> Some(json_dump(ds)), ret |-> "filename"]

\* a document is unreadable (not JSON, or without the 'draft_state' key),
\* or it is JSON with a 'draft_state' value
Unreadable == [kind |-> "unreadable"]
Document(value) == [kind |-> "json", draft_state |-> value]

import_draft_state(ds, doc) ==
    IF doc.kind = "json"
    THEN [ds |-> doc.draft_state, ret |-> "True"]
    ELSE [ds |-> ds, ret |-> "False"]

(***************************************************************************)
(* get_draft_summary and _estimate_next_pick.  The roster and the needs of *)
(* the user's team are looked up under the integer current_team.           *)
(***************************************************************************)
_estimate_next_pick(ds) ==
    IF ds.pick < ds.current_team
    THEN ds.current_team - ds.pick
    ELSE ds.total_teams - ds.pick + ds.current_team

get_draft_summary(ds) ==
    LET your_team == ds.current_team
    IN  [current_round          |-> ds.round,
         current_pick           |-> ds.pick,
         current_draft_position |-> get_current_draft_position(ds),
         your_team              |-> your_team,
         your_roster            |-> IF IntKey(your_team) \in DOMAIN ds.team_rosters
                                    THEN ds.team_rosters[IntKey(your_team)]
                                    ELSE <<>>,
         your_needs             |-> get_team_needs(ds, your_team),
         total_drafted          |-> Len(ds.drafted_players),
         draft_format           |-> ds.draft_format,
         next_pick_estimate     |-> _estimate_next_pick(ds)]

(***************************************************************************)
(* Numbers of the scoring formula.  A score is a fraction <<n, d>> with    *)
(* d > 0 in lowest terms, so that 1 / Expert_Rank and the division of the  *)
(* min-max normalisation are computed, not approximated.  The decimal      *)
(* literals of the code (0.1, 0.3, 0.02, 0.2, 2.0) are the fractions they  *)
(* denote.                                                                 *)
(***************************************************************************)
Abs(n) == IF n < 0 THEN -n ELSE n

RECURSIVE GCD(_, _)
GCD(a, b) == IF b = 0 THEN a ELSE GCD(b, a % b)

Frac(n, d) ==
    LET g == GCD(Abs(n), Abs(d))
        sign == IF d < 0 THEN -1 ELSE 1
    IN  <<(sign * n) \div g, (sign * d) \div g>>

FAdd(a, b) == Frac(a[1] * b[2] + b[1] * a[2], a[2] * b[2])
FSub(a, b) == Frac(a[1] * b[2] - b[1] * a[2], a[2] * b[2])
FMul(a, b) == Frac(a[1] * b[1], a[2] * b[2])
FDiv(a, b) == Frac(a[1] * b[2], a[2] * b[1])
FLess(a, b) == a[1] * b[2] < b[1] * a[2]
FMin(a, b) == IF FLess(b, a) THEN b ELSE a
FMax(a, b) == IF FLess(a, b) THEN b ELSE a
Whole(n) == Frac(n, 1)

\* round(score, 4), in ten-thousandths
Round4(a) == (2 * 10000 * a[1] + a[2]) \div (2 * a[2])

(***************************************************************************)
(* get_recommendations.                                                    *)
(***************************************************************************)
\* line 81: Value_Score = 1 / Expert_Rank
Value_Score(row) == Frac(1, row.Expert_Rank)

ValueScores(available) ==
    { Value_Score(available[i]) : i \in 1..Len(available) }

\* lines 304-305
best_value(available) ==
    CHOOSE v \in ValueScores(available) :
        \A w \in ValueScores(available) : ~FLess(v, w)

worst_value(available) ==
    CHOOSE v \in ValueScores(available) :
        \A w \in ValueScores(available) : ~FLess(w, v)

\* lines 306-311
relative_value(available, row) ==
    LET value_range == FSub(best_value(available), worst_value(available))
    IN  IF FLess(Whole(0), value_range)
        THEN FMul(FDiv(FSub(Value_Score(row), worst_value(available)), value_range),
                  Whole(100))
        ELSE Whole(100)

\* mutant: the bonus is not capped
AdpValueBonusUncapped(expert_rank, current_pick) ==
    IF expert_rank < current_pick
    THEN FMul(Whole(current_pick - expert_rank), Frac(1, 10))
    ELSE Whole(0)

\* lines 323-327
adp_value_bonus(expert_rank, current_pick) ==
    IF expert_rank < current_pick
    THEN FMin(FMul(Whole(current_pick - expert_rank), Frac(1, 10)), Whole(2))
    ELSE Whole(0)

\* mutant: a position without need gets no penalty
NeedBonusWithoutPenalty(your_needs, position) ==
    IF position \in DOMAIN your_needs /\ your_needs[position] > 0
    THEN FMul(Whole(your_needs[position]), Frac(3, 10))
    ELSE Whole(0)

\* lines 330-335
need_bonus(your_needs, position) ==
    IF position \in DOMAIN your_needs /\ your_needs[position] > 0
    THEN FMul(Whole(your_needs[position]), Frac(3, 10))
    ELSE Frac(-2, 10)

\* lines 338-339
value_bonus(available, row) == FMul(relative_value(available, row), Frac(2, 100))

\* lines 342-343
scarcity_bonus(available, position) ==
    LET pos_available ==
            Cardinality({ i \in 1..Len(available) : available[i].Position = position })
    IN  FMax(Whole(0), FMul(Whole(10 - pos_available), Frac(1, 10)))

\* lines 317-346
final_score(ds, available, row) ==
    LET base_score == Frac(1, row.Expert_Rank)
        current_pick == get_current_draft_position(ds)
        your_needs == get_team_needs(ds, ds.current_team)
    IN  FAdd(FAdd(FAdd(FAdd(base_score,
                            need_bonus(your_needs, row.Position)),
                       value_bonus(available, row)),
                  scarcity_bonus(available, row.Position)),
             adp_value_bonus(row.Expert_Rank, current_pick))

\* lines 313-353: one entry per available player, in the order of the pool
player_scores(ds) ==
    LET available == get_available_players(ds)
    IN  [i \in 1..Len(available) |->
            [player |-> available[i],
             score  |-> final_score(ds, available, available[i])]]

\* line 356: list.sort(key = score, reverse = True), a stable sort
RECURSIVE InsertBeforeEqualScores(_, _)
\* mutant: an entry is put before the entries of equal score
InsertBeforeEqualScores(sorted, entry) ==
    IF sorted = <<>>
    THEN <<entry>>
    ELSE IF ~FLess(entry.score, Head(sorted).score)
         THEN <<entry>> \o sorted
         ELSE <<Head(sorted)>> \o InsertBeforeEqualScores(Tail(sorted), entry)

RECURSIVE InsertByScore(_, _)
InsertByScore(sorted, entry) ==
    IF sorted = <<>>
    THEN <<entry>>
    ELSE IF FLess(Head(sorted).score, entry.score)
         THEN <<entry>> \o sorted
         ELSE <<Head(sorted)>> \o InsertByScore(Tail(sorted), entry)

RECURSIVE SortByScore(_)
SortByScore(scores) ==
    IF scores = <<>>
    THEN <<>>
    ELSE InsertByScore(SortByScore(SubSeq(scores, 1, Len(scores) - 1)),
                       scores[Len(scores)])

Min(a, b) == IF a <= b THEN a ELSE b

\* mutant: one entry more than asked for
SliceOneMore(seq, n) == SubSeq(seq, 1, Min(n + 1, Len(seq)))

\* line 358: player_scores[:num_recommendations]
Slice(seq, n) ==
    IF n >= 0
    THEN SubSeq(seq, 1, Min(n, Len(seq)))
    ELSE SubSeq(seq, 1, Max(0, Len(seq) + n))

(***************************************************************************)
(* _generate_reasoning.  A reason is the text of its f-string with the     *)
(* values that fill it; the reasoning is the sequence of reasons that      *)
(* "; ".join puts together, or the fallback sentence when there is none.   *)
(* The positions of "Also need" are a set: the order of the dictionary is  *)
(* not modelled.                                                           *)
(***************************************************************************)
Reason(text, number, position, positions) ==
    [text |-> text, number |-> number, position |-> position,
     positions |-> positions]

\* mutant: the thresholds of the ADP reason are strict
AdpReasonStrict(expert_rank, current_pick) ==
    IF expert_rank < current_pick
    THEN LET adp_difference == current_pick - expert_rank
         IN  IF adp_difference > 20
             THEN <<Reason("EXCEPTIONAL VALUE: {adp_difference} picks below ADP!",
                           adp_difference, "", {})>>
             ELSE IF adp_difference > 10
             THEN <<Reason("Great value: {adp_difference} picks below ADP",
                           adp_difference, "", {})>>
             ELSE <<Reason("Good value: {adp_difference} picks below ADP",
                           adp_difference, "", {})>>
    ELSE <<>>

\* lines 432-439
AdpReason(expert_rank, current_pick) ==
    IF expert_rank < current_pick
    THEN LET adp_difference == current_pick - expert_rank
         IN  IF adp_difference >= 20
             THEN <<Reason("EXCEPTIONAL VALUE: {adp_difference} picks below ADP!",
                           adp_difference, "", {})>>
             ELSE IF adp_difference >= 10
             THEN <<Reason("Great value: {adp_difference} picks below ADP",
                           adp_difference, "", {})>>
             ELSE <<Reason("Good value: {adp_difference} picks below ADP",
                           adp_difference, "", {})>>
    ELSE <<>>

\* mutant: a position without need gets no reason
NeedReasonOnlyWhenNeeded(team_needs, position) ==
    IF position \in DOMAIN team_needs /\ team_needs[position] > 0
    THEN <<Reason("Need {position} players", 0, position, {})>>
    ELSE <<>>

\* lines 442-446
NeedReason(team_needs, position) ==
    IF position \in DOMAIN team_needs /\ team_needs[position] > 0
    THEN <<Reason("Need {position} players", 0, position, {})>>
    ELSE <<Reason("Position filled but value too good to pass up", 0, "", {})>>

\* lines 449-452
TierReason(expert_rank) ==
    IF expert_rank <= 50
    THEN <<Reason("Top-tier talent", 0, "", {})>>
    ELSE IF expert_rank <= 100
    THEN <<Reason("Strong value pick", 0, "", {})>>
    ELSE <<>>

\* lines 455-457
ScarcityReason(pos_available, position) ==
    IF pos_available <= 5
    THEN <<Reason("Only {pos_available} {position} players left",
                  pos_available, position, {})>>
    ELSE <<>>

\* lines 460-462
OtherNeedsReason(team_needs, position) ==
    LET other_positions_needed ==
            { pos \in DOMAIN team_needs : team_needs[pos] > 0 /\ pos # position }
    IN  IF other_positions_needed # {}
        THEN <<Reason("Also need: {', '.join(other_positions_needed)}",
                      0, "", other_positions_needed)>>
        ELSE <<>>

\* lines 426-464, of the values the function reads
reasons(expert_rank, position, current_pick, pos_available, team_needs) ==
    AdpReason(expert_rank, current_pick)
    \o NeedReason(team_needs, position)
    \o TierReason(expert_rank)
    \o ScarcityReason(pos_available, position)
    \o OtherNeedsReason(team_needs, position)

\* line 464
Joined(rs) ==
    IF rs # <<>> THEN rs
    ELSE <<Reason("Good value for current draft position", 0, "", {})>>

_generate_reasoning(ds, player_score, team_needs) ==
    LET position      == player_score.player.Position
        available     == get_available_players(ds)
        pos_available ==
            Cardinality({ i \in 1..Len(available) : available[i].Position = position })
    IN  Joined(reasons(player_score.player.Expert_Rank, position,
                       get_current_draft_position(ds), pos_available, team_needs))

\* lines 358-373 (the table of the model has no Team column)
get_recommendations(ds, num_recommendations) ==
    LET top == Slice(SortByScore(player_scores(ds)), num_recommendations)
        your_needs == get_team_needs(ds, ds.current_team)
    IN  [i \in 1..Len(top) |->
            [rank                 |-> i,
             player_name          |-> top[i].player.Name,
             position             |-> top[i].player.Position,
             expert_rank          |-> top[i].player.Expert_Rank,
             recommendation_score |-> Round4(top[i].score),
             reasoning            |-> _generate_reasoning(ds, top[i], your_needs)]]

(***************************************************************************)
(* get_best_available_players.  The rows are sorted by combined_score,     *)
(* which is strictly higher for the better Expert_Rank, so the sort has no *)
(* ties to break; value_score is relative_value rounded to one decimal, in *)
(* tenths.                                                                 *)
(***************************************************************************)
\* round(x, 1), as a number of tenths
Round1(a) == (2 * 10 * a[1] + a[2]) \div (2 * a[2])

\* mutant: the relative value is subtracted
CombinedScoreSubtracting(available, row) ==
    FSub(Frac(1, row.Expert_Rank),
         FMul(relative_value(available, row), Frac(1, 100)))

\* line 405
combined_score(available, row) ==
    FAdd(Frac(1, row.Expert_Rank),
         FMul(relative_value(available, row), Frac(1, 100)))

get_best_available_players(ds, num_players) ==
    LET available == get_available_players(ds)
        scored == [i \in 1..Len(available) |->
                      [player |-> available[i],
                       score  |-> combined_score(available, available[i])]]
        top == Slice(SortByScore(scored), num_players)
    IN  IF available = <<>>
        THEN <<>>
        ELSE [i \in 1..Len(top) |->
                 [player_name |-> top[i].player.Name,
                  position    |-> top[i].player.Position,
                  expert_rank |-> top[i].player.Expert_Rank,
                  value_score |-> Round1(relative_value(available, top[i].player)),
                  rank        |-> i,
                  type        |-> "best_available"]]

(***************************************************************************)
(* Inputs of the calls.                                                    *)
(***************************************************************************)
\* draft formats a caller sets (position -> required count)
Formats == { [WR |-> 1, RB |-> 0] }

TeamNumbers == 1..MaxTeams

OptionalTeams == {None} \cup { Some(t) : t \in TeamNumbers }

OptionalBools == {None, Some(TRUE), Some(FALSE)}

\* files that no export wrote
HandWrittenDocuments == {Unreadable}

Documents ==
    HandWrittenDocuments \cup (IF disk = None THEN {} ELSE {Document(disk[1])})

(***************************************************************************)
(* The calls.                                                              *)
(***************************************************************************)
Bool(b) == IF b THEN "True" ELSE "False"

\* set_draft_format with one of the given formats
SetDraftFormatOf(formats) ==
    \E format_config \in formats :
        /\ draft_state' = set_draft_format(draft_state, format_config)
        /\ result' = [op |-> "set_draft_format", ret |-> "None"]
        /\ UNCHANGED <<disk, in_flight>>

SetDraftFormat == SetDraftFormatOf(Formats)

SetDraftParameters ==
    \E total_teams \in TeamNumbers, current_team \in TeamNumbers :
        /\ draft_state' = set_draft_parameters(draft_state, total_teams, current_team)
        /\ result' = [op |-> "set_draft_parameters", ret |-> "None"]
        /\ UNCHANGED <<disk, in_flight>>

\* record_pick with arguments drawn from the given sets
RecordPickOf(names, teams, bools, max_picks) ==
    /\ Has(draft_state, {"drafted_players"})
          => Len(draft_state.drafted_players) < max_picks
    /\ \E player_name \in names, team_number \in teams, is_your_pick \in bools :
            LET r == record_pick(draft_state, player_name, team_number, is_your_pick)
            IN  /\ draft_state' = r.ds
                /\ result' = [op |-> "record_pick", player_name |-> player_name,
                              ret |-> r.ret]
    /\ UNCHANGED <<disk, in_flight>>

RecordPick == RecordPickOf(PlayerNames, OptionalTeams, OptionalBools, MaxPicks)

\* a read of the team on the clock (web_interface.py line 208)
CalculateCurrentTeam ==
    /\ Has(draft_state, {"round", "pick", "total_teams"})
    /\ result' = [op |-> "_calculate_current_team",
                  team |-> _calculate_current_team(draft_state)]
    /\ UNCHANGED <<draft_state, disk, in_flight>>

GetTeamNeeds ==
    /\ Has(draft_state, {"team_rosters", "draft_format"})
    /\ \E team_number \in TeamNumbers :
          result' = [op |-> "get_team_needs", team_number |-> team_number,
                     needs |-> get_team_needs(draft_state, team_number)]
    /\ UNCHANGED <<draft_state, disk, in_flight>>

ExportDraftState ==
    LET r == export_draft_state(draft_state, disk)
    IN  /\ disk' = r.disk
        /\ result' = [op |-> "export_draft_state", ret |-> r.ret]
        /\ UNCHANGED <<draft_state, in_flight>>

\* import_draft_state of one of the given files
ImportOf(docs) ==
    \E doc \in docs :
        LET r == import_draft_state(draft_state, doc)
        IN  /\ draft_state' = r.ds
            /\ result' = [op |-> "import_draft_state", ret |-> r.ret]
            /\ UNCHANGED <<disk, in_flight>>

ImportDraftState == ImportOf(Documents)

Next ==
    \/ SetDraftFormat
    \/ SetDraftParameters
    \/ RecordPick
    \/ CalculateCurrentTeam
    \/ GetTeamNeeds
    \/ ExportDraftState
    \/ ImportDraftState

Spec == Init /\ [][Next]_vars

(***************************************************************************)
(* The snake specification: the parameters are set at most once, before    *)
(* the first pick, and every pick is recorded without a team number, so    *)
(* total_teams stays fixed and nothing but record_pick moves the tracker.  *)
(***************************************************************************)
SnakeTeamCounts == TeamNumbers \cup {12}

SetupParameters ==
    /\ result.op = "init"
    /\ \E total_teams \in SnakeTeamCounts :
        \E current_team \in 1..total_teams :
            /\ draft_state' = set_draft_parameters(draft_state, total_teams, current_team)
            /\ result' = [op |-> "set_draft_parameters", ret |-> "None"]
    /\ UNCHANGED <<disk, in_flight>>

SnakeRecordPick ==
    RecordPickOf({players_df[1].Name, UnknownName}, {None}, {None}, MaxSnakePicks)

SnakeNext ==
    \/ SetupParameters
    \/ SnakeRecordPick
    \/ CalculateCurrentTeam

SpecSnake == Init /\ [][SnakeNext]_vars

(***************************************************************************)
(* The snapshot specification: the files imported are written by hand, not *)
(* by export_draft_state.  A file is unreadable, or it is a JSON document  *)
(* whose 'draft_state' value lacks one field, or it is a complete          *)
(* document.  The calls that follow an import run on whatever draft_state  *)
(* the import left.                                                        *)
(***************************************************************************)
WithoutField(ds, field) == [k \in DOMAIN ds \ {field} |-> ds[k]]

\* a complete snapshot of a two-team draft at the start of round 2
CompleteSnapshot ==
    [InitialDraftState EXCEPT !.round = 2, !.total_teams = 2, !.current_team = 2]

SnapshotFiles ==
    {Unreadable, Document(CompleteSnapshot)}
    \cup { Document(WithoutField(CompleteSnapshot, field)) : field \in Fields }

ImportSnapshot == ImportOf(SnapshotFiles)

SnapshotNext ==
    \/ SetDraftFormat
    \/ SetDraftParameters
    \/ RecordPick
    \/ ImportSnapshot

SpecSnapshot == Init /\ [][SnapshotNext]_vars

(***************************************************************************)
(* The recommendation specification: formats, parameters and picks in any  *)
(* order, and get_recommendations(N) read in every state.  Picks name any  *)
(* row of the table; no snapshot is written or read.                       *)
(***************************************************************************)
\* a format that asks for one WR, and one that asks for eight RB and no WR
RecommendFormats == { [WR |-> 1, RB |-> 0], [WR |-> 0, RB |-> 8] }

\* num_recommendations: a count, from none to more than the table holds
RecommendationCounts == 0..(NumPlayers + 1)

SetRecommendFormat == SetDraftFormatOf(RecommendFormats)

RecommendRecordPick == RecordPickOf(CatalogNames, OptionalTeams, {None}, MaxPicks)

GetRecommendations ==
    /\ \E num_recommendations \in RecommendationCounts :
          result' = [op |-> "get_recommendations",
                     num_recommendations |-> num_recommendations,
                     recommendations |->
                         get_recommendations(draft_state, num_recommendations)]
    /\ UNCHANGED <<draft_state, disk, in_flight>>

RecommendNext ==
    \/ SetRecommendFormat
    \/ SetDraftParameters
    \/ RecommendRecordPick
    \/ GetRecommendations

SpecRecommend == Init /\ [][RecommendNext]_vars

(***************************************************************************)
(* The ADP specification: adp_value_bonus, a function of the player's      *)
(* Expert_Rank and the overall draft position alone, applied to every pair *)
(* of the two ranges.                                                      *)
(***************************************************************************)
AdpValueBonus ==
    /\ \E expert_rank \in 1..MaxExpertRank, current_pick \in 1..MaxOverallPosition :
          result' = [op |-> "adp_value_bonus",
                     expert_rank |-> expert_rank,
                     current_pick |-> current_pick,
                     bonus |-> adp_value_bonus(expert_rank, current_pick)]
    /\ UNCHANGED <<draft_state, disk, in_flight>>

AdpNext == AdpValueBonus

SpecAdp == Init /\ [][AdpNext]_vars

(***************************************************************************)
(* Player search (api_server.py search_players, web_interface.py           *)
(* search_players_api).  A name is the sequence of its letters, so that    *)
(* str.contains(query, case=False) is a comparison of lowered letters.     *)
(* The queries are plain letters (str.contains reads its argument as a     *)
(* regular expression; none of the queries here has a special character).  *)
(***************************************************************************)
Letters ==
    [Chase    |-> <<"C", "h", "a", "s", "e">>,
     Robinson |-> <<"R", "o", "b", "i", "n", "s", "o", "n">>,
     Lamb     |-> <<"L", "a", "m", "b">>,
     Allen    |-> <<"A", "l", "l", "e", "n">>,
     Bowers   |-> <<"B", "o", "w", "e", "r", "s">>]

LowerLetter(c) ==
    CASE c = "A" -> "a" [] c = "B" -> "b" [] c = "C" -> "c"
      [] c = "L" -> "l" [] c = "R" -> "r" [] OTHER -> c

Lower(word) == [i \in 1..Len(word) |-> LowerLetter(word[i])]

\* Series.str.contains(query, case=False)
Contains(word, query) ==
    \E i \in 0..(Len(word) - Len(query)) :
        SubSeq(Lower(word), i + 1, i + Len(query)) = Lower(query)

Matching(rows, query) ==
    SelectSeq(rows, LAMBDA row : Contains(Letters[row.Name], query))

\* drop_duplicates(subset=['Name']): the first row of every name is kept
RECURSIVE drop_duplicates(_)
drop_duplicates(rows) ==
    IF rows = <<>>
    THEN <<>>
    ELSE LET front == drop_duplicates(SubSeq(rows, 1, Len(rows) - 1))
             last  == rows[Len(rows)]
         IN  IF \E i \in 1..Len(front) : front[i].Name = last.Name
             THEN front
             ELSE Append(front, last)

\* api_server.py lines 314-337
search_players(ds, query, limit) ==
    LET available == Matching(get_available_players(ds), query)
        search_results ==
            IF Len(available) < limit
            THEN drop_duplicates(available \o Matching(players_df, query))
            ELSE available
        limited == Slice(search_results, limit)
    IN  [i \in 1..Len(limited) |->
            [name        |-> limited[i].Name,
             position    |-> limited[i].Position,
             expert_rank |-> limited[i].Expert_Rank,
             available   |-> limited[i].Name \notin DraftedNames(ds)]]

\* web_interface.py lines 232-242: the available players only, without a flag
search_players_api(ds, query, limit) ==
    LET limited == Slice(Matching(get_available_players(ds), query), limit)
    IN  [i \in 1..Len(limited) |->
            [name        |-> limited[i].Name,
             position    |-> limited[i].Position,
             expert_rank |-> limited[i].Expert_Rank]]

(***************************************************************************)
(* The search specification: picks of any row of the table, and both       *)
(* searches in every state.                                                *)
(***************************************************************************)
\* "chase", "A", "ob", "z"
Queries == { <<"c", "h", "a", "s", "e">>, <<"A">>, <<"o", "b">>, <<"z">> }

\* limit: one result, or as many as the table holds
SearchLimits == {1, NumPlayers}

SearchRecordPick == RecordPickOf(CatalogNames, {None}, {None}, MaxPicks)

SearchPlayers ==
    /\ \E query \in Queries, limit \in SearchLimits :
          result' = [op |-> "search_players", query |-> query, limit |-> limit,
                     players |-> search_players(draft_state, query, limit)]
    /\ UNCHANGED <<draft_state, disk, in_flight>>

SearchPlayersApi ==
    /\ \E query \in Queries, limit \in SearchLimits :
          result' = [op |-> "search_players_api", query |-> query, limit |-> limit,
                     players |-> search_players_api(draft_state, query, limit)]
    /\ UNCHANGED <<draft_state, disk, in_flight>>

SearchNext ==
    \/ SearchRecordPick
    \/ SearchPlayers
    \/ SearchPlayersApi

SpecSearch == Init /\ [][SearchNext]_vars

(***************************************************************************)
(* The calls of record_pick that name the team and say whose pick it is,   *)
(* for teams inside and outside 1..total_teams, between changes of the     *)
(* parameters.                                                             *)
(***************************************************************************)
ExplicitTeamNumbers == 0..(MaxTeams + 1)

ExplicitRecordPick ==
    RecordPickOf(CatalogNames, { Some(t) : t \in ExplicitTeamNumbers },
                 {Some(TRUE), Some(FALSE)}, MaxPicks)

ExplicitNext ==
    \/ SetDraftParameters
    \/ ExplicitRecordPick

SpecExplicit == Init /\ [][ExplicitNext]_vars

(***************************************************************************)
(* record_pick in its three writes (history line 178, roster lines         *)
(* 181-184, tracker line 187) and get_draft_summary as the read.  A caller *)
(* that runs every operation to completion reads only when no record_pick  *)
(* is in flight; a caller that does not serialise reads between the        *)
(* writes.                                                                 *)
(***************************************************************************)
\* lines 151-178: the lookup, pick_info and the append to the history
RecordPickAppend ==
    /\ in_flight = None
    /\ Len(draft_state.drafted_players) < MaxSnakePicks
    /\ \E player_name \in {players_df[1].Name, UnknownName} :
          IF player_name \notin CatalogNames
          THEN /\ result' = [op |-> "record_pick", player_name |-> player_name,
                             ret |-> PlayerNotFound(draft_state).ret]
               /\ UNCHANGED <<draft_state, in_flight>>
          ELSE LET team      == _calculate_current_team(draft_state)
                   mine      == (team = draft_state.current_team)
                   pick_info == PickInfo(draft_state, player_name, team, mine)
               IN  /\ draft_state' = AppendDrafted(draft_state, pick_info)
                   /\ in_flight' = Some([player_name |-> player_name,
                                         team_number |-> team,
                                         pick_info   |-> pick_info,
                                         next        |-> "roster"])
                   /\ UNCHANGED result
    /\ UNCHANGED disk

\* lines 181-184
RecordPickRoster ==
    /\ in_flight # None
    /\ in_flight[1].next = "roster"
    /\ draft_state' = AppendRoster(draft_state, in_flight[1].team_number,
                                   in_flight[1].pick_info)
    /\ in_flight' = Some([in_flight[1] EXCEPT !.next = "advance"])
    /\ UNCHANGED <<disk, result>>

\* lines 187-190
RecordPickAdvance ==
    /\ in_flight # None
    /\ in_flight[1].next = "advance"
    /\ draft_state' = _advance_draft_position(draft_state)
    /\ in_flight' = None
    /\ result' = [op |-> "record_pick", player_name |-> in_flight[1].player_name,
                  ret |-> "True"]
    /\ UNCHANGED disk

\* get_draft_summary called between operations
GetDraftSummary ==
    /\ in_flight = None
    /\ result' = [op |-> "get_draft_summary", interleaved |-> FALSE,
                  summary |-> get_draft_summary(draft_state)]
    /\ UNCHANGED <<draft_state, disk, in_flight>>

\* get_draft_summary called while a record_pick is between its writes
GetDraftSummaryInterleaved ==
    /\ in_flight # None
    /\ result' = [op |-> "get_draft_summary", interleaved |-> TRUE,
                  summary |-> get_draft_summary(draft_state)]
    /\ UNCHANGED <<draft_state, disk, in_flight>>

ThreadsNext ==
    \/ SetupParameters
    \/ RecordPickAppend
    \/ RecordPickRoster
    \/ RecordPickAdvance
    \/ GetDraftSummary
    \/ GetDraftSummaryInterleaved

SpecThreads == Init /\ [][ThreadsNext]_vars

(***************************************************************************)
(* The reasoning as a function of the values it reads: the rank of the     *)
(* player, the overall position of the draft, the number of players left   *)
(* at the position and the needs of the team.                              *)
(***************************************************************************)
ReasonPositions == {"WR", "RB"}

ReasonNeeds == { EmptyDict, [WR |-> 1, RB |-> 0], [WR |-> 0, RB |-> 2] }

GenerateReasoning ==
    /\ result.op = "init"
    /\ \E expert_rank \in 1..MaxReasonRank, current_pick \in 1..MaxOverallPosition,
          pos_available \in 0..MaxPositionAvailable,
          position \in ReasonPositions, team_needs \in ReasonNeeds :
            result' = [op            |-> "_generate_reasoning",
                       expert_rank   |-> expert_rank,
                       position      |-> position,
                       current_pick  |-> current_pick,
                       pos_available |-> pos_available,
                       team_needs    |-> team_needs,
                       reasoning     |-> Joined(reasons(expert_rank, position,
                                                        current_pick, pos_available,
                                                        team_needs))]
    /\ UNCHANGED <<draft_state, disk, in_flight>>

ReasoningNext == GenerateReasoning

SpecReasoning == Init /\ [][ReasoningNext]_vars

(***************************************************************************)
(* The best available players, asked for at any point of a draft in which  *)
(* every player of the table can be taken, between changes of the format   *)
(* and of the parameters.                                                  *)
(***************************************************************************)
BestRecordPick == RecordPickOf(CatalogNames, {None}, {None}, NumPlayers)

GetBestAvailablePlayers ==
    /\ \E num_players \in RecommendationCounts :
          result' = [op |-> "get_best_available_players",
                     num_players |-> num_players,
                     players |-> get_best_available_players(draft_state, num_players)]
    /\ UNCHANGED <<draft_state, disk, in_flight>>

BestNext ==
    \/ SetDraftFormat
    \/ SetDraftParameters
    \/ BestRecordPick
    \/ GetBestAvailablePlayers

SpecBest == Init /\ [][BestNext]_vars

(***************************************************************************)
(* The draft that goes on: the parameters are set once, picks are recorded *)
(* without team_number, and is_your_turn is asked in between.  The picks   *)
(* do not stop while the history is below its bound: a successful          *)
(* record_pick is taken whenever it stays possible.                        *)
(***************************************************************************)
IsYourTurn ==
    /\ result' = [op |-> "is_your_turn", ret |-> Bool(is_your_turn(draft_state))]
    /\ UNCHANGED <<draft_state, disk, in_flight>>

TurnNext ==
    \/ SetupParameters
    \/ SnakeRecordPick
    \/ IsYourTurn

SpecTurn ==
    /\ Init
    /\ [][TurnNext]_vars
    /\ WF_vars(SnakeRecordPick /\ result'.ret = "True")

(***************************************************************************)
(* record_pick_api of web_interface.py: the form fields are converted,     *)
(* record_pick is called, and on success the response is filled from the   *)
(* summary and from _calculate_current_team, both read after record_pick   *)
(* has returned.                                                           *)
(***************************************************************************)
\* line 200: int(team_number) if team_number else None
FormTeam(team_number) ==
    IF team_number = None \/ team_number[1] = 0 THEN None ELSE team_number

record_pick_api(ds, player_name, team_number, is_your_pick) ==
    LET team_num == FormTeam(team_number)
        is_your  == is_your_pick
        r        == record_pick(ds, player_name, team_num, is_your)
    IN  IF r.ret = "True"
        THEN LET summary         == get_draft_summary(r.ds)
                 calculated_team == _calculate_current_team(r.ds)
             IN  [ds |-> r.ds,
                  response |->
                     [success      |-> TRUE,
                      team_number  |-> calculated_team,
                      is_your_pick |-> (calculated_team = r.ds.current_team),
                      round        |-> summary.current_round,
                      pick         |-> summary.current_pick]]
        ELSE [ds |-> r.ds, response |-> [success |-> FALSE]]

\* the team_number field of the form: absent, 0, or a team
FormTeams == OptionalTeams \cup {Some(0)}

RecordPickApi ==
    /\ Len(draft_state.drafted_players) < MaxPicks
    /\ \E player_name \in PlayerNames, team_number \in FormTeams,
          is_your_pick \in OptionalBools :
            LET r == record_pick_api(draft_state, player_name, team_number,
                                     is_your_pick)
            IN  /\ draft_state' = r.ds
                /\ result' = [op |-> "record_pick_api", response |-> r.response]
    /\ UNCHANGED <<disk, in_flight>>

WebNext ==
    \/ SetDraftParameters
    \/ RecordPickApi

SpecWeb == Init /\ [][WebNext]_vars

(***************************************************************************)
(* Views of the state used by the properties.                              *)
(***************************************************************************)
\* the picks of every roster, as (key, index) places
RosterPlaces(ds) ==
    UNION { { <<k, i>> : i \in 1..Len(ds.team_rosters[k]) } :
            k \in DOMAIN ds.team_rosters }

SuccessfulRecordPick == result'.op = "record_pick" /\ result'.ret = "True"

SuccessfulImport == result'.op = "import_draft_state" /\ result'.ret = "True"

(***************************************************************************)
(* C1: no player name appears in more than one recorded Pick: neither the  *)
(* drafted history nor the team rosters hold the same name twice.          *)
(* Stated as the claim has it; record_pick does not look whether the       *)
(* player was drafted before, so a second call with the same name breaks   *)
(* it.                                                                     *)
(***************************************************************************)
C1_NoPlayerDraftedTwice ==
    LET dp == draft_state.drafted_players
        tr == draft_state.team_rosters
    IN  /\ \A i, j \in 1..Len(dp) :
              i # j => dp[i].player_name # dp[j].player_name
        /\ \A x, y \in RosterPlaces(draft_state) :
              x # y => tr[x[1]][x[2]].player_name # tr[y[1]][y[2]].player_name

(***************************************************************************)
(* C2 as claimed: a name that is in the drafted history is absent from     *)
(* get_available_players() after every later call, import included.        *)
(***************************************************************************)
C2_NeverAvailableAgain ==
    [][\A name \in CatalogNames :
          name \in DraftedNames(draft_state)
              => name \notin AvailableNames(draft_state')]_vars

(***************************************************************************)
(* C2 amended: a name that is in the drafted history is absent from        *)
(* get_available_players() after every later call other than a successful  *)
(* import_draft_state, which replaces the history by the snapshot's.       *)
(***************************************************************************)
C2_NotAvailableUntilImport ==
    [][~SuccessfulImport =>
          \A name \in CatalogNames :
              name \in DraftedNames(draft_state)
                  => name \notin AvailableNames(draft_state')]_vars

\* a later call (a parameter change) has acted on a history with a pick, and
\* another player is still available
C2_Witness ==
    /\ result.op = "set_draft_parameters"
    /\ DraftedNames(draft_state) # {}
    /\ AvailableNames(draft_state) # {}
    /\ disk # None

(***************************************************************************)
(* C3: in every reachable state 1 <= pick <= total_teams and round >= 1.   *)
(* Stated as the claim has it; set_draft_parameters stores a total_teams   *)
(* below the current pick without touching the tracker.                    *)
(***************************************************************************)
C3_PickWithinTeams ==
    /\ 1 <= draft_state.pick
    /\ draft_state.pick <= draft_state.total_teams
    /\ draft_state.round >= 1

(***************************************************************************)
(* C4: a record_pick call with a name that is not in the catalog returns   *)
(* the failure indicator and leaves round, pick, drafted history and every *)
(* roster (the whole draft_state) as they were.                            *)
(***************************************************************************)
C4_FailedPickChangesNothing ==
    [][(result'.op = "record_pick" /\ result'.player_name \notin CatalogNames)
          => /\ result'.ret = "False"
             /\ draft_state' = draft_state
             /\ disk' = disk]_vars

\* a failed record_pick has acted on a draft in progress
C4_Witness ==
    /\ result.op = "record_pick"
    /\ result.ret = "False"
    /\ Len(draft_state.drafted_players) >= 1
    /\ draft_state.pick > 1

(***************************************************************************)
(* C5: a successful record_pick appends one Pick that carries the          *)
(* tracker's (round, pick) of before the call and then advances the        *)
(* tracker by exactly one overall position; so the first Pick of the       *)
(* history is at (1, 1), every Pick is one step after the Pick before it,  *)
(* and the tracker is one step after the last Pick.                        *)
(***************************************************************************)
OneStep(r1, p1, r2, p2) ==
    \/ r2 = r1 /\ p2 = p1 + 1
    \/ r2 = r1 + 1 /\ p2 = 1

C5_PickAtPreAdvancePosition ==
    /\ [][SuccessfulRecordPick =>
            LET old == draft_state.drafted_players
                new == draft_state'.drafted_players
            IN  /\ Len(new) = Len(old) + 1
                /\ SubSeq(new, 1, Len(old)) = old
                /\ new[Len(new)].player_name = result'.player_name
                /\ new[Len(new)].round = draft_state.round
                /\ new[Len(new)].pick = draft_state.pick
                /\ get_current_draft_position(draft_state')
                      = get_current_draft_position(draft_state) + 1]_vars
    /\ [](LET dp == draft_state.drafted_players
          IN  /\ dp # <<>> => dp[1].round = 1 /\ dp[1].pick = 1
              /\ \A i \in 1..Len(dp) - 1 :
                    OneStep(dp[i].round, dp[i].pick, dp[i + 1].round, dp[i + 1].pick)
              /\ dp # <<>> =>
                    OneStep(dp[Len(dp)].round, dp[Len(dp)].pick,
                            draft_state.round, draft_state.pick))

\* a second pick has been recorded, at the end of a round
C5_Witness ==
    /\ result.op = "record_pick"
    /\ result.ret = "True"
    /\ Len(draft_state.drafted_players) = 2
    /\ draft_state.round = 2
    /\ draft_state.pick = 1

(***************************************************************************)
(* C6: _calculate_current_team returns pick in an odd round and            *)
(* total_teams - pick + 1 in an even round, a team in 1..total_teams       *)
(* whenever pick is in 1..total_teams, and changes nothing.                *)
(***************************************************************************)
C6_TeamOnClock ==
    [][result'.op = "_calculate_current_team" =>
          LET ds == draft_state
          IN  /\ draft_state' = draft_state
              /\ disk' = disk
              /\ ds.round % 2 = 1 => result'.team = ds.pick
              /\ ds.round % 2 = 0 => result'.team = ds.total_teams - ds.pick + 1
              /\ ds.pick \in 1..ds.total_teams
                    => result'.team \in 1..ds.total_teams]_vars

\* the team on the clock was read in an even round where it differs from pick
C6_Witness ==
    /\ result.op = "_calculate_current_team"
    /\ draft_state.round % 2 = 0
    /\ draft_state.pick \in 1..draft_state.total_teams
    /\ result.team # draft_state.pick

(***************************************************************************)
(* C7: the advance made by a successful record_pick takes (round, pick) to *)
(* (round + 1, 1) when pick = total_teams and to (round, pick + 1)         *)
(* otherwise, and changes no other field than round and pick; below the    *)
(* bound of the model a pick can be recorded in every state, there is no   *)
(* terminal position.                                                      *)
(***************************************************************************)
C7_Advance ==
    /\ [][SuccessfulRecordPick =>
            LET ds == draft_state
            IN  /\ ds.pick = ds.total_teams
                      => draft_state'.round = ds.round + 1 /\ draft_state'.pick = 1
                /\ ds.pick # ds.total_teams
                      => draft_state'.round = ds.round /\ draft_state'.pick = ds.pick + 1
                /\ draft_state'.total_teams = ds.total_teams
                /\ draft_state'.current_team = ds.current_team
                /\ draft_state'.draft_format = ds.draft_format]_vars
    /\ [](LET a == _advance_draft_position(draft_state)
          IN  \A k \in Fields \ {"round", "pick"} : a[k] = draft_state[k])
    /\ [](Len(draft_state.drafted_players) < MaxPicks
              => ENABLED (RecordPick /\ SuccessfulRecordPick))

\* one pick was recorded at the last position of a round (a rollover to
\* round 2) and the next one within round 2
C7_Witness ==
    /\ result.op = "record_pick"
    /\ result.ret = "True"
    /\ Len(draft_state.drafted_players) = 2
    /\ draft_state.round = 2
    /\ draft_state.pick = 2

(***************************************************************************)
(* C8: with total_teams = T fixed and n picks recorded from (1, 1), the    *)
(* tracker is at (n div T + 1, n mod T + 1) and the overall position is    *)
(* n + 1; with T = 12 and 13 picks it is at (2, 2) with team 11 on the     *)
(* clock.  Checked under SpecSnake.                                        *)
(***************************************************************************)
C8_PositionAfterNPicks ==
    LET n == Len(draft_state.drafted_players)
        T == draft_state.total_teams
    IN  /\ draft_state.round = (n \div T) + 1
        /\ draft_state.pick = (n % T) + 1
        /\ get_current_draft_position(draft_state) = n + 1
        /\ (T = 12 /\ n = 13)
              => /\ draft_state.round = 2
                 /\ draft_state.pick = 2
                 /\ _calculate_current_team(draft_state) = 11

\* 13 picks were recorded in a draft of 12 teams
C8_Witness ==
    /\ result.op = "record_pick"
    /\ result.ret = "True"
    /\ draft_state.total_teams = 12
    /\ Len(draft_state.drafted_players) = 13

(***************************************************************************)
(* C9: for every round r up to the current one and every pick p in         *)
(* 1..total_teams, the teams on the clock at (r, p) and at (r + 1, p) are  *)
(* mirror images: team(r, p) = total_teams + 1 - team(r + 1, p).  Checked  *)
(* under SpecSnake, which visits every (round, pick) of the first rounds.  *)
(***************************************************************************)
C9_MirrorRounds ==
    LET T == draft_state.total_teams
    IN  /\ \A r \in 1..draft_state.round, p \in 1..T :
              TeamOnClock(r, p, T) = T + 1 - TeamOnClock(r + 1, p, T)
        /\ result.op = "_calculate_current_team"
              => result.team = T + 1 - _calculate_current_team(
                                   [draft_state EXCEPT !.round = @ + 1])

\* the team on the clock was read in round 3 of a draft of several teams
C9_Witness ==
    /\ result.op = "_calculate_current_team"
    /\ draft_state.round = 3
    /\ draft_state.total_teams > 1
    /\ draft_state.pick = draft_state.total_teams
    /\ result.team = draft_state.total_teams

(***************************************************************************)
(* C10: get_team_needs(team) returns a mapping over exactly the positions  *)
(* of draft_format, with max(0, required - the number of that team's picks *)
(* at the position), never negative, and the full draft_format for a team  *)
(* without picks.  Stated as the claim has it; the picks of a team are the *)
(* picks of the history recorded for its team number.  After an import the *)
(* rosters are keyed by strings, the lookup by the integer team number     *)
(* misses, and the full draft_format is returned for a team with picks.    *)
(***************************************************************************)
PicksOfTeamAt(ds, team_number, pos) ==
    Cardinality({ i \in 1..Len(ds.drafted_players) :
                    /\ ds.drafted_players[i].team_number = team_number
                    /\ ds.drafted_players[i].position = pos })

C10_NeedsOfEveryTeam ==
    result.op = "get_team_needs" =>
        LET required == draft_state.draft_format
        IN  /\ DOMAIN result.needs = DOMAIN required
            /\ \A pos \in DOMAIN required :
                  /\ result.needs[pos] >= 0
                  /\ result.needs[pos] =
                        Max(0, required[pos]
                                - PicksOfTeamAt(draft_state, result.team_number, pos))

(***************************************************************************)
(* C11: exporting a draft state and importing the exported document yields *)
(* a state whose draft summary (round, pick, roster and needs of the user's *)
(* team, and the rest of it) is the summary of before the export.  Stated  *)
(* as the claim has it, for every import of a file that is the export of   *)
(* the present state.  The rosters come back keyed by strings, so the      *)
(* summary of a user with picks shows an empty roster and the full format  *)
(* as needs.                                                               *)
(***************************************************************************)
C11_RoundTripSummary ==
    [][(SuccessfulImport /\ disk = Some(json_dump(draft_state)))
          => get_draft_summary(draft_state') = get_draft_summary(draft_state)]_vars

(***************************************************************************)
(* C12: import_draft_state of a document that is malformed or lacks a      *)
(* field of the draft state reports failure and leaves the draft state     *)
(* untouched; the state is replaced only by a complete document.  Stated   *)
(* as the claim has it: an import that reports success leaves a draft      *)
(* state with every field, an import that reports failure leaves the       *)
(* state as it was.  Checked under SpecSnapshot; the code looks for the    *)
(* 'draft_state' key only and stores its value whatever it holds.          *)
(***************************************************************************)
C12_ImportOnlyComplete ==
    [][result'.op = "import_draft_state" =>
          IF result'.ret = "True"
          THEN Has(draft_state', Fields)
          ELSE draft_state' = draft_state]_vars

(***************************************************************************)
(* C13: set_draft_parameters accepts only valid parameters, so             *)
(* 1 <= current_team <= total_teams holds in every reachable state.        *)
(* Stated as the claim has it; set_draft_parameters stores whatever it is  *)
(* given (the range is tested by the command-line menu only).              *)
(***************************************************************************)
C13_CurrentTeamWithinTeams ==
    /\ 1 <= draft_state.current_team
    /\ draft_state.current_team <= draft_state.total_teams

(***************************************************************************)
(* C14: every Pick of the drafted history and of every roster has its      *)
(* team_number in 1..total_teams, whether record_pick was given the team   *)
(* number or calculated it.  Stated as the claim has it; record_pick       *)
(* stores a given team_number unseen.                                      *)
(***************************************************************************)
C14_PickTeamWithinTeams ==
    LET dp == draft_state.drafted_players
        tr == draft_state.team_rosters
    IN  /\ \A i \in 1..Len(dp) :
              dp[i].team_number \in 1..draft_state.total_teams
        /\ \A x \in RosterPlaces(draft_state) :
              tr[x[1]][x[2]].team_number \in 1..draft_state.total_teams

(***************************************************************************)
(* C15: each Pick of the drafted history is in exactly one roster, the one *)
(* keyed by its team_number (the key read as a number, written as integer  *)
(* or as string); each roster lists its picks in draft order; the history  *)
(* has as many entries as the rosters together.  Stated as the claim has   *)
(* it, without its last part (the history only grows), which C2 covers.    *)
(* A roster keyed "1" by an import and a roster keyed 1 by a later pick    *)
(* are written under the same name by the next export, and the import of   *)
(* that file holds one of them only.                                       *)
(***************************************************************************)
RosterPlacesOf(ds, pick_info) ==
    { x \in RosterPlaces(ds) : ds.team_rosters[x[1]][x[2]] = pick_info }

SumOfRosterLengths(ds) == Cardinality(RosterPlaces(ds))

C15_HistoryInExactlyOneRoster ==
    LET dp == draft_state.drafted_players
        tr == draft_state.team_rosters
    IN  /\ \A i \in 1..Len(dp) :
              /\ Cardinality(RosterPlacesOf(draft_state, dp[i])) = 1
              /\ \A x \in RosterPlacesOf(draft_state, dp[i]) :
                    x[1][2] = dp[i].team_number
        /\ \A k \in DOMAIN tr : \A i, j \in 1..Len(tr[k]) :
              i < j => \A m, n \in 1..Len(dp) :
                          (dp[m] = tr[k][i] /\ dp[n] = tr[k][j]) => m < n
        /\ Len(dp) = SumOfRosterLengths(draft_state)

(***************************************************************************)
(* C16: get_available_players() returns exactly the catalog players whose  *)
(* name is in no team roster, in ascending Expert_Rank order (the table of *)
(* the model has no two rows of equal rank).  Stated as the claim has it;  *)
(* the code filters by the names of the drafted history, and a history     *)
(* Pick that the rosters lost (C15) is neither in a roster nor available.  *)
(***************************************************************************)
RosterNames(ds) ==
    { ds.team_rosters[x[1]][x[2]].player_name : x \in RosterPlaces(ds) }

C16_AvailableAreUnrostered ==
    LET available == get_available_players(draft_state)
    IN  /\ AvailableNames(draft_state) = CatalogNames \ RosterNames(draft_state)
        /\ \A i, j \in 1..Len(available) :
              i < j => available[i].Expert_Rank < available[j].Expert_Rank

(***************************************************************************)
(* C17: get_recommendations(N), for a count N >= 0, returns                *)
(* min(N, number of available players) entries; every entry is a catalog   *)
(* player who is not in the drafted history; no player occurs twice; the   *)
(* rank fields are 1, 2, ..., k in list order.  Checked under              *)
(* SpecRecommend.                                                          *)
(***************************************************************************)
UndraftedNames(ds) == CatalogNames \ DraftedNames(ds)

C17_TopNOfAvailable ==
    result.op = "get_recommendations" =>
        LET recs == result.recommendations
        IN  /\ Len(recs) = Min(result.num_recommendations,
                               Cardinality(UndraftedNames(draft_state)))
            /\ \A i \in 1..Len(recs) :
                  /\ recs[i].player_name \in UndraftedNames(draft_state)
                  /\ recs[i].rank = i
            /\ \A i, j \in 1..Len(recs) :
                  i # j => recs[i].player_name # recs[j].player_name

\* more recommendations were asked for than players are left, after a pick
C17_Witness ==
    /\ result.op = "get_recommendations"
    /\ DraftedNames(draft_state) # {}
    /\ Len(result.recommendations) >= 2
    /\ result.num_recommendations > Len(result.recommendations)

(***************************************************************************)
(* C18: the list of get_recommendations is in non-increasing score order,  *)
(* and of two players with equal score the one of lower Expert_Rank comes  *)
(* first.  The score of an entry is the final_score of its player in the   *)
(* present state; the rounded scores of the entries are non-increasing     *)
(* too.  Checked under SpecRecommend.                                      *)
(***************************************************************************)
ScoreOf(ds, player_name) ==
    final_score(ds, get_available_players(ds), PlayerRow(player_name))

C18_SortedByScoreThenRank ==
    result.op = "get_recommendations" =>
        LET recs == result.recommendations
        IN  \A i, j \in 1..Len(recs) :
              i < j =>
                LET si == ScoreOf(draft_state, recs[i].player_name)
                    sj == ScoreOf(draft_state, recs[j].player_name)
                IN  /\ ~FLess(si, sj)
                    /\ recs[i].recommendation_score >= recs[j].recommendation_score
                    /\ si = sj => recs[i].expert_rank < recs[j].expert_rank

\* two players of equal score are in the list
C18_Witness ==
    /\ result.op = "get_recommendations"
    /\ LET recs == result.recommendations
       IN  /\ \E i, j \in 1..Len(recs) :
                 /\ i < j
                 /\ ScoreOf(draft_state, recs[i].player_name)
                       = ScoreOf(draft_state, recs[j].player_name)
           /\ Len(recs) >= 2

(***************************************************************************)
(* C19: the score of every available player is                             *)
(*   1 / expert_rank                                                       *)
(*   + (0.3 * need if the user's need at the position is > 0, else -0.2,   *)
(*      also for a position the format does not name)                      *)
(*   + 0.02 * relative_value, the min-max normalisation of 1 / expert_rank *)
(*      to [0, 100] over the available pool (100 when all are equal)       *)
(*   + max(0, (10 - available players at the position) * 0.1)              *)
(*   + adp_value_bonus.                                                    *)
(* The terms are written here from the ranks of the pool; every entry of   *)
(* the list carries this score rounded to four decimals, and a list asked  *)
(* for with N >= the pool's size has one entry for every available player. *)
(* Checked under SpecRecommend.                                            *)
(***************************************************************************)
ClaimedScore(ds, player_name) ==
    LET row    == PlayerRow(player_name)
        r      == row.Expert_Rank
        pool   == { PlayerRow(name) : name \in UndraftedNames(ds) }
        ranks  == { p.Expert_Rank : p \in pool }
        rmin   == CHOOSE x \in ranks : \A y \in ranks : x <= y
        rmax   == CHOOSE x \in ranks : \A y \in ranks : x >= y
        needs  == get_team_needs(ds, ds.current_team)
        need   == IF row.Position \in DOMAIN needs THEN needs[row.Position] ELSE 0
        count  == Cardinality({ p \in pool : p.Position = row.Position })
        cp     == get_current_draft_position(ds)
        base_value     == Frac(1, r)
        need_term      == IF need > 0 THEN Frac(3 * need, 10) ELSE Frac(-2, 10)
        relative       == IF rmin = rmax
                          THEN Whole(100)
                          ELSE Frac(100 * (rmax - r) * rmin, r * (rmax - rmin))
        value_term     == Frac(2 * relative[1], 100 * relative[2])
        scarcity_term  == Frac(Max(0, 10 - count), 10)
        adp_term       == IF r >= cp THEN Whole(0) ELSE Frac(Min(cp - r, 20), 10)
    IN  FAdd(base_value, FAdd(need_term, FAdd(value_term,
             FAdd(scarcity_term, adp_term))))

C20_AdpBonusCapped ==
    result.op = "adp_value_bonus" =>
        LET gap == result.current_pick - result.expert_rank
        IN  /\ gap <= 0 => result.bonus = Whole(0)
            /\ gap > 0 => result.bonus = Frac(Min(gap, 20), 10)
            /\ ~FLess(result.bonus, Whole(0))
            /\ ~FLess(Whole(2), result.bonus)
            /\ gap >= 20 => result.bonus = Whole(2)

\* the bonus of a player of rank 30 at overall position 55 is 2
C20_Witness ==
    /\ result.op = "adp_value_bonus"
    /\ result.expert_rank = 30
    /\ result.current_pick = 55
    /\ result.bonus = <<2, 1>>

(***************************************************************************)
(* C21: a player search returns players whose name contains the query,     *)
(* letters compared without case; the available matches come before the    *)
(* others; no name is returned twice; every result is flagged available    *)
(* exactly when its name is not in the drafted history; and when the       *)
(* matching catalog players are no more than the limit, all of them are    *)
(* returned, the drafted ones too (a drafted player is still found).       *)
(* Stated as the claim has it, for both searches.  Checked under           *)
(* SpecSearch; the search of the web interface looks among the available   *)
(* players only and flags nothing.                                         *)
(***************************************************************************)
MatchingNames(query) ==
    { name \in CatalogNames : Contains(Letters[name], query) }

\* a result without a flag comes from the search among the available players
Flag(player) == IF "available" \in DOMAIN player THEN player.available ELSE TRUE

C21_SearchFindsDrafted ==
    result.op \in {"search_players", "search_players_api"} =>
        LET players == result.players
            drafted == DraftedNames(draft_state)
        IN  /\ \A i \in 1..Len(players) :
                  /\ players[i].name \in MatchingNames(result.query)
                  /\ Flag(players[i]) = (players[i].name \notin drafted)
            /\ \A i, j \in 1..Len(players) :
                  i < j => /\ players[i].name # players[j].name
                           /\ players[j].name \notin drafted
                                 => players[i].name \notin drafted
            /\ Cardinality(MatchingNames(result.query)) <= result.limit
                  => { players[i].name : i \in 1..Len(players) }
                        = MatchingNames(result.query)

(***************************************************************************)
(* C22: record_pick with the name of a catalog player and an explicit      *)
(* team_number and is_your_pick, whether or not that team is on the clock, *)
(* returns True, appends exactly one Pick carrying the given team_number   *)
(* and is_your_pick, and raises total_drafted by one.  Checked of the call *)
(* made in every reachable state with every explicit pair of arguments.    *)
(***************************************************************************)
C22_ExplicitPickRecorded ==
    \A player_name \in CatalogNames, team_number \in ExplicitTeamNumbers,
       is_your_pick \in BOOLEAN :
        LET r      == record_pick(draft_state, player_name,
                                  Some(team_number), Some(is_your_pick))
            before == draft_state.drafted_players
            after  == r.ds.drafted_players
        IN  /\ r.ret = "True"
            /\ Len(after) = Len(before) + 1
            /\ SubSeq(after, 1, Len(before)) = before
            /\ after[Len(after)].player_name = player_name
            /\ after[Len(after)].team_number = team_number
            /\ after[Len(after)].is_your_pick = is_your_pick
            /\ get_draft_summary(r.ds).total_drafted
                  = get_draft_summary(draft_state).total_drafted + 1

\* a pick was recorded for a team that was not on the clock, with an
\* is_your_pick that is not the one the code would have calculated
C22_Witness ==
    /\ result.op = "record_pick" /\ result.ret = "True"
    /\ LET dp   == draft_state.drafted_players
           last == dp[Len(dp)]
       IN  /\ last.team_number
                 # TeamOnClock(last.round, last.pick, draft_state.total_teams)
           /\ last.is_your_pick
                 # (last.team_number = draft_state.current_team)
           /\ get_draft_summary(draft_state).total_drafted = Len(dp)

(***************************************************************************)
(* C23: a read made when every operation has run to completion never sees  *)
(* a half-advanced state, one where a Pick is in the history or in a       *)
(* roster while round and pick still show the position of that Pick; a     *)
(* read made between the writes of a record_pick can see one (the          *)
(* witness).                                                               *)
(***************************************************************************)
HalfAdvanced(summary) ==
    \/ summary.total_drafted >= summary.current_draft_position
    \/ \E i \in 1..Len(summary.your_roster) :
          /\ summary.your_roster[i].round = summary.current_round
          /\ summary.your_roster[i].pick = summary.current_pick

C23_SerialisedReadsSeeWholePicks ==
    (result.op = "get_draft_summary" /\ ~result.interleaved)
        => ~HalfAdvanced(result.summary)

\* a summary read between the writes shows the pick in the history and in
\* the user's roster while the position is still the one of that pick
C23_Witness ==
    /\ result.op = "get_draft_summary"
    /\ result.interleaved
    /\ result.summary.total_drafted = result.summary.current_draft_position
    /\ \E i \in 1..Len(result.summary.your_roster) :
          /\ result.summary.your_roster[i].round = result.summary.current_round
          /\ result.summary.your_roster[i].pick = result.summary.current_pick

(***************************************************************************)
(* C24: next_pick_estimate is the number of picks until the user's next    *)
(* turn: with current_team in 1..total_teams and next_pick_estimate = k,   *)
(* the user's team is on the clock after exactly k further recorded picks  *)
(* and after none of the picks before that.                                *)
(***************************************************************************)
RECURSIVE AfterPicks(_, _)
\* the draft_state after n further successful picks, as far as the tracker goes
AfterPicks(ds, n) ==
    IF n <= 0 THEN ds ELSE AfterPicks(_advance_draft_position(ds), n - 1)

C24_EstimateIsNextTurn ==
    draft_state.current_team \in 1..draft_state.total_teams =>
        LET k == get_draft_summary(draft_state).next_pick_estimate
        IN  /\ is_your_turn(AfterPicks(draft_state, k))
            /\ \A j \in 1..(k - 1) : ~is_your_turn(AfterPicks(draft_state, j))

(***************************************************************************)
(* C25: the reasoning is built in a fixed order (ADP, need, tier,          *)
(* scarcity, other needs).  With gap = current overall position -          *)
(* expert_rank, the ADP reason is EXCEPTIONAL VALUE for gap >= 20, Great   *)
(* value for 10 <= gap < 20, Good value for 0 < gap < 10, each with the    *)
(* gap as its number, and absent for gap <= 0; the tier reason is Top-tier *)
(* talent up to rank 50, Strong value pick from 51 to 100 and absent above *)
(* 100; the scarcity reason is there exactly when at most 5 players are    *)
(* left at the position.                                                   *)
(***************************************************************************)
ReasonKind(text) ==
    CASE text \in {"EXCEPTIONAL VALUE: {adp_difference} picks below ADP!",
                   "Great value: {adp_difference} picks below ADP",
                   "Good value: {adp_difference} picks below ADP"} -> 1
      [] text \in {"Need {position} players",
                   "Position filled but value too good to pass up"} -> 2
      [] text \in {"Top-tier talent", "Strong value pick"} -> 3
      [] text = "Only {pos_available} {position} players left" -> 4
      [] text = "Also need: {', '.join(other_positions_needed)}" -> 5
      [] OTHER -> 0

ReasonsOfKind(rs, kind) ==
    { rs[i] : i \in { n \in 1..Len(rs) : ReasonKind(rs[n].text) = kind } }

C25_ReasoningByThresholds ==
    result.op = "_generate_reasoning" =>
        LET rs   == result.reasoning
            gap  == result.current_pick - result.expert_rank
            rank == result.expert_rank
            adp(text) == ReasonsOfKind(rs, 1) = {Reason(text, gap, "", {})}
        IN  /\ \A i, j \in 1..Len(rs) :
                  i < j => ReasonKind(rs[i].text) < ReasonKind(rs[j].text)
            /\ gap >= 20 => adp("EXCEPTIONAL VALUE: {adp_difference} picks below ADP!")
            /\ (10 <= gap /\ gap < 20)
                  => adp("Great value: {adp_difference} picks below ADP")
            /\ (0 < gap /\ gap < 10)
                  => adp("Good value: {adp_difference} picks below ADP")
            /\ gap <= 0 => ReasonsOfKind(rs, 1) = {}
            /\ rank <= 50
                  => ReasonsOfKind(rs, 3) = {Reason("Top-tier talent", 0, "", {})}
            /\ (50 < rank /\ rank <= 100)
                  => ReasonsOfKind(rs, 3) = {Reason("Strong value pick", 0, "", {})}
            /\ rank > 100 => ReasonsOfKind(rs, 3) = {}
            /\ ReasonsOfKind(rs, 4)
                  = IF result.pos_available <= 5
                    THEN {Reason("Only {pos_available} {position} players left",
                                 result.pos_available, result.position, {})}
                    ELSE {}

\* a reasoning with all five parts, written at a gap of exactly 20
C25_Witness ==
    /\ result.op = "_generate_reasoning"
    /\ result.current_pick - result.expert_rank = 20
    /\ result.pos_available = 5
    /\ Len(result.reasoning) = 5
    /\ result.reasoning[1].text
          = "EXCEPTIONAL VALUE: {adp_difference} picks below ADP!"
    /\ result.reasoning[4].number = 5

(***************************************************************************)
(* C26: get_best_available_players(N), N >= 0, returns the first           *)
(* min(N, number available) available players in ascending expert_rank     *)
(* order, ranked 1..k, and the empty list when no player is available; the *)
(* list is the one a fresh assistant with the same drafted names returns,  *)
(* whatever round, pick, teams, current_team, rosters and draft_format     *)
(* are.                                                                    *)
(***************************************************************************)
SameDraftedOnly(ds) ==
    [InitialDraftState EXCEPT !.drafted_players = ds.drafted_players]

C26_BestAvailableByRank ==
    result.op = "get_best_available_players" =>
        LET players   == result.players
            undrafted == UndraftedNames(draft_state)
        IN  /\ Len(players) = Min(result.num_players, Cardinality(undrafted))
            /\ \A i \in 1..Len(players) :
                  /\ players[i].rank = i
                  /\ players[i].player_name \in undrafted
                  /\ players[i].expert_rank
                        = PlayerRow(players[i].player_name).Expert_Rank
                  \* no available player outside the first i is ranked better
                  /\ Cardinality({ name \in undrafted :
                          PlayerRow(name).Expert_Rank < players[i].expert_rank })
                        = i - 1
            /\ players = get_best_available_players(SameDraftedOnly(draft_state),
                                                    result.num_players)
            /\ undrafted = {} => players = <<>>

\* more players asked for than are left, in the second round of a two-team
\* draft with a format set: the two left come back in rank order
C26_Witness ==
    /\ result.op = "get_best_available_players"
    /\ result.num_players > Len(result.players)
    /\ Len(result.players) = 2
    /\ draft_state.round > 1
    /\ draft_state.draft_format # EmptyDict
    /\ draft_state.current_team # 1

\* every player is drafted and the list asked for is empty
C26_WitnessNoneLeft ==
    /\ result.op = "get_best_available_players"
    /\ result.num_players > 0
    /\ UndraftedNames(draft_state) = {}
    /\ result.players = <<>>

(***************************************************************************)
(* C27: with record_pick always called without team_number and total_teams *)
(* fixed, the picks follow snake order: pick n of the draft is pick        *)
(* (n-1) % T + 1 of round (n-1) \div T + 1 and goes to the roster of the   *)
(* team of that place, forward in odd rounds and reversed in even rounds;  *)
(* so after k complete rounds every roster has k picks, rosters never      *)
(* differ in length by more than one, and is_your_pick is true exactly for *)
(* the picks in current_team's roster.                                     *)
(***************************************************************************)
RosterLength(ds, team_number) ==
    IF IntKey(team_number) \in DOMAIN ds.team_rosters
    THEN Len(ds.team_rosters[IntKey(team_number)])
    ELSE 0

SnakeTeam(round_num, pick_num, total_teams) ==
    IF round_num % 2 = 1 THEN pick_num ELSE total_teams - pick_num + 1

C28_TurnIsTeamOnClock ==
    LET T == draft_state.total_teams
    IN  /\ is_your_turn(draft_state)
              <=> (TeamOnClock(draft_state.round, draft_state.pick, T)
                     = draft_state.current_team)
        /\ result.op = "is_your_turn"
              => result.ret = Bool(TeamOnClock(draft_state.round, draft_state.pick, T)
                                     = draft_state.current_team)
        /\ \E j \in 1..(2 * T - 1) : is_your_turn(AfterPicks(draft_state, j))

\* n picks are recorded and the bound leaves room for 2 * total_teams - 1 more
C28_RoomAfter(n) ==
    /\ Len(draft_state.drafted_players) = n
    /\ n + 2 * draft_state.total_teams - 1 <= MaxSnakePicks

C28_TurnWithin(n) ==
    /\ is_your_turn(draft_state)
    /\ Len(draft_state.drafted_players) > n
    /\ Len(draft_state.drafted_players) <= n + 2 * draft_state.total_teams - 1

C28_TurnRecurs ==
    /\ []C28_TurnIsTeamOnClock
    /\ \A n \in 0..MaxSnakePicks : C28_RoomAfter(n) ~> C28_TurnWithin(n)

\* two teams, the user first: the turn of pick 1 has come back at pick 4,
\* after 2 * 2 - 1 picks, and is_your_turn says so
C28_Witness ==
    /\ result.op = "is_your_turn"
    /\ result.ret = "True"
    /\ draft_state.total_teams = 2
    /\ draft_state.current_team = 1
    /\ Len(draft_state.drafted_players) = 3

(***************************************************************************)
(* C29: a successful web record-pick reports the team the pick was         *)
(* recorded for and whether the pick was the user's: team_number and       *)
(* is_your_pick of the response equal those of the Pick just appended.     *)
(***************************************************************************)
C29_ResponseIsRecordedPick ==
    (result.op = "record_pick_api" /\ result.response.success) =>
        LET dp   == draft_state.drafted_players
            last == dp[Len(dp)]
        IN  /\ result.response.team_number = last.team_number
            /\ result.response.is_your_pick = last.is_your_pick

(***************************************************************************)
(* C30: the reasoning of every recommendation holds exactly one of the two *)
(* need reasons: "Need <position> players" when the user's need at the     *)
(* player's position is above 0, the position-filled sentence otherwise.   *)
(* So the reasons are never empty and the fallback sentence is never       *)
(* returned.                                                               *)
(***************************************************************************)
C30_OneNeedReason ==
    result.op = "get_recommendations" =>
        LET your_needs == get_team_needs(draft_state, draft_state.current_team)
        IN  \A i \in 1..Len(result.recommendations) :
                LET rs       == result.recommendations[i].reasoning
                    position == result.recommendations[i].position
                    needed   == /\ position \in DOMAIN your_needs
                                /\ your_needs[position] > 0
                IN  /\ Cardinality({ n \in 1..Len(rs) : ReasonKind(rs[n].text) = 2 }) = 1
                    /\ ReasonsOfKind(rs, 2)
                          = IF needed
                            THEN {Reason("Need {position} players", 0, position, {})}
                            ELSE {Reason("Position filled but value too good to pass up",
                                         0, "", {})}
                    /\ rs # <<>>
                    /\ \A n \in 1..Len(rs) :
                          rs[n].text # "Good value for current draft position"

\* one list recommends a player at a needed position and a player at a
\* position that is filled
C30_Witness ==
    /\ result.op = "get_recommendations"
    /\ \E i, j \in 1..Len(result.recommendations) :
          /\ \E n \in 1..Len(result.recommendations[i].reasoning) :
                result.recommendations[i].reasoning[n].text
                    = "Need {position} players"
          /\ \E n \in 1..Len(result.recommendations[j].reasoning) :
                result.recommendations[j].reasoning[n].text
                    = "Position filled but value too good to pass up"
====
